---- MODULE Spec2Model ----
(***************************************************************************)
(* Model of mltsp/datasets/asas_training.py: the cache loader              *)
(* fetch_asas_training and the fetcher download_asas_training, run by      *)
(* processes that share one storage directory.                             *)
(***************************************************************************)
EXTENDS Integers, Sequences, FiniteSets, TLC

(* ------------------------------ bounds -------------------------------- *)

\* number of member files in the remote archive
MaxMembers == 2
\* number of calls of fetch_asas_training in one behaviour
MaxCalls == 2

(* ----------------------------- constants ------------------------------ *)

HEADER_FILE == "asas_training_set_classes_with_metadata.dat"
ARCHIVE_NAME == "asas_training_set.tar.gz"
CACHE_NAME == "asas_training_set.pkl"
DefaultDir == "DATA_PATH/datasets/asas_training"
GoodMd5 == "02c65e90d23999ec1c59ad56a78de477"
BadMd5 == "another digest"

Procs == {"p1", "p2"}
Members == 1..MaxMembers

VARIABLES
    remote,   \* member order of the archive served at BASE_URL
    disk,     \* files of the storage directory
    pc,       \* position of each process
    loc,      \* local variables of each process's current call
    hist,     \* per call: log of collaborator calls, outcome of the cache load
    last,     \* outcome of the call that completed last
    ncalls    \* calls started so far

vars == <<remote, disk, pc, loc, hist, last, ncalls>>

(* ------------------------------ helpers ------------------------------- *)

Range(s) == {s[i] : i \in 1..Len(s)}

\* os.path.join(data_dir, name)
Path(dir, name) == <<dir, name>>

\* the object identifier a member path stands for (its file name)
shorten_fname(path) == path[2]

\* all orders in which the archive can list its members
RECURSIVE Perms(_)
Perms(S) ==
    IF S = {} THEN {<<>>}
    ELSE UNION {{<<x>> \o t : t \in Perms(S \ {x})} : x \in S}

ArchiveOrders == UNION {Perms(S) : S \in SUBSET Members}

\* featurize_tools.parse_ts_data: the (t, m, e) triple held by a member file
parse_ts_data(fname) ==
    LET id == shorten_fname(fname)
    IN  <<<<"t", id>>, <<"m", id>>, <<"e", id>>>>

\* featurize_tools.parse_headerfile: class label and metadata of every object
\* among the given member paths
parse_headerfile(header_path, ts_paths) ==
    LET ids == {shorten_fname(f) : f \in Range(ts_paths)}
    IN  <<[id \in ids |-> <<"class", id % 2>>],
          [id \in ids |-> <<"meta", id>>]>>

\* the dict built at lines 72-74
Dataset(times, measurements, errors, classes, metadata, archive, header) ==
    [times |-> times, measurements |-> measurements, errors |-> errors,
     classes |-> classes, metadata |-> metadata, archive |-> archive,
     header |-> header]

NoData == Dataset(<<>>, <<>>, <<>>, <<>>, <<>>, <<>>, <<>>)

\* joblib.dump(data, cache_path, compress=3): the bytes of the cache file,
\* a magic prefix followed by the pickled fields
ZPrefix == "ZF"
joblib_dump(data) ==
    <<ZPrefix, data.times, data.measurements, data.errors, data.classes,
      data.metadata, data.archive, data.header>>
BlobLen == Len(joblib_dump(NoData))

NoFile == [exists |-> FALSE, bytes |-> <<>>]
File(bytes) == [exists |-> TRUE, bytes |-> bytes]

\* joblib.load(cache_path): the Dataset, or the class of the exception raised:
\* IOError for a missing file, ValueError for a file that does not start as a
\* cache file does, EOFError for one that ends before its last field
joblib_load(file) ==
    IF ~file.exists THEN [class |-> "IOError", data |-> NoData]
    ELSE IF Len(file.bytes) = 0 \/ file.bytes[1] # ZPrefix
        THEN [class |-> "ValueError", data |-> NoData]
    ELSE IF Len(file.bytes) < BlobLen
        THEN [class |-> "EOFError", data |-> NoData]
    ELSE [class |-> "ok",
          data |-> Dataset(file.bytes[2], file.bytes[3], file.bytes[4],
                           file.bytes[5], file.bytes[6], file.bytes[7],
                           file.bytes[8])]

\* the file of the storage directory a path names, as a reader sees it
ReadFile(d, path) ==
    IF path[2] = CACHE_NAME THEN d.cache
    ELSE IF path[2] = HEADER_FILE /\ d.header THEN File(<<"filename,class">>)
    ELSE IF path[2] = ARCHIVE_NAME /\ d.archive # "absent" THEN File(<<d.archive>>)
    ELSE NoFile

\* the storage directory after bytes are written to the file a path names
WriteFile(d, path, bytes) ==
    IF path[2] = CACHE_NAME THEN [d EXCEPT !.cache = File(bytes)] ELSE d

\* the Dataset a complete fetch into dir builds from the archive order ord
BuiltFrom(dir, ord) ==
    LET paths == [i \in 1..Len(ord) |-> Path(dir, ord[i])]
        hp == Path(dir, HEADER_FILE)
        cm == parse_headerfile(hp, paths)
    IN  Dataset([i \in 1..Len(ord) |-> parse_ts_data(paths[i])[1]],
                [i \in 1..Len(ord) |-> parse_ts_data(paths[i])[2]],
                [i \in 1..Len(ord) |-> parse_ts_data(paths[i])[3]],
                cm[1], cm[2], Path(dir, ARCHIVE_NAME), hp)

\* cache files a storage directory may hold before the first call: none,
\* garbage, a truncated cache, the cache of an older archive
InitialCaches ==
    {NoFile,
     File(<<"garbage">>),
     File(SubSeq(joblib_dump(BuiltFrom(DefaultDir, <<1>>)), 1, 4)),
     File(joblib_dump(BuiltFrom(DefaultDir, <<1>>)))}

EmptyDisk ==
    [header |-> FALSE, archive |-> "absent", members |-> {}, cache |-> NoFile]

InitLoc ==
    [data_dir |-> DefaultDir, ts_paths |-> <<>>, header_path |-> <<>>,
     archive_path |-> <<>>, times |-> <<>>, measurements |-> <<>>,
     errors |-> <<>>, classes |-> <<>>, metadata |-> <<>>,
     data |-> NoData, err |-> "none"]

InitHist ==
    [log |-> <<>>, loadClass |-> "none", diskAtCall |-> EmptyDisk,
     prev |-> "none", prevData |-> NoData]

\* md5sums=None: no checksum is verified
MD5SUMS_None == <<>>

\* line 16: MD5SUMS
MD5SUMS == (ARCHIVE_NAME :> GoodMd5)

\* the default of download_and_extract_archives
remove_archive_default == TRUE

\* line 54: remove_archive=False
remove_archive == FALSE

\* a handler that catches every exception of the load
CaughtAny == {"ValueError", "IOError", "EOFError"}

\* line 115: except (ValueError, IOError)
CaughtErrors == {"ValueError", "IOError"}

\* the cache name the docstring gives (line 30) instead of CACHE_NAME
FetchCachePathDoc(data_dir) == Path(data_dir, "asas_training.pkl")

\* line 110: cache_path of fetch_asas_training
FetchCachePath(data_dir) == Path(data_dir, CACHE_NAME)

\* the cache name the docstring gives (line 30) instead of CACHE_NAME
DownloadCachePathDoc(data_dir) == Path(data_dir, "asas_training.pkl")

\* line 71: cache_path of download_asas_training
DownloadCachePath(data_dir) == Path(data_dir, CACHE_NAME)

\* the header parsed before the member files are removed
FetcherStepsHeaderFirst ==
    <<"dl_header", "dl_archive", "parse_ts", "read_csv", "parse_header",
      "remove", "dump">>

\* the cache written before the member files are removed
FetcherStepsDumpEarly ==
    <<"dl_header", "dl_archive", "parse_ts", "read_csv", "dump", "remove",
      "parse_header">>

\* lines 51-75: the statements of download_asas_training in program order
FetcherSteps ==
    <<"dl_header", "dl_archive", "parse_ts", "read_csv", "remove",
      "parse_header", "dump">>

Active == {"load"} \cup Range(FetcherSteps)

\* the statement after step s, "done" after the last one (lines 76, 117)
After(s) ==
    LET i == CHOOSE j \in 1..Len(FetcherSteps) : FetcherSteps[j] = s
    IN  IF i = Len(FetcherSteps) THEN "done" ELSE FetcherSteps[i + 1]

\* line 60: a loop over no paths is skipped
Enter(s, paths) == IF s = "parse_ts" /\ Len(paths) = 0 THEN After(s) ELSE s

TypeOK ==
    /\ remote \in ArchiveOrders
    /\ disk.header \in BOOLEAN
    /\ disk.archive \in {"absent", GoodMd5, BadMd5}
    /\ disk.members \subseteq Members
    /\ pc \in [Procs -> Active \cup {"idle", "done", "raised"}]
    /\ ncalls \in 0..MaxCalls

Init ==
    /\ remote \in ArchiveOrders
    /\ disk \in {[EmptyDisk EXCEPT !.cache = c] : c \in InitialCaches}
    /\ pc = [p \in Procs |-> "idle"]
    /\ loc = [p \in Procs |-> InitLoc]
    /\ hist = [p \in Procs |-> InitHist]
    /\ last = [kind |-> "none", data |-> NoData]
    /\ ncalls = 0

(* ------------------------- collaborator calls -------------------------- *)

\* dsutil.download_file(data_dir, BASE_URL, HEADER_FILE): the header file is
\* downloaded when it is absent; net is what the network does
download_file(d, net) ==
    IF d.header THEN [disk |-> d, err |-> "none"]
    ELSE IF net = "ok" THEN [disk |-> [d EXCEPT !.header = TRUE], err |-> "none"]
    ELSE [disk |-> d, err |-> "NetworkError"]

\* dsutil.download_and_extract_archives(data_dir, BASE_URL, [ARCHIVE_NAME],
\* md5sums, remove_archive): download when absent, verify the checksum,
\* extract the members in archive order ord, return their paths
download_and_extract_archives(d, dir, md5sums, rm_archive, ord, net) ==
    LET d1 == IF d.archive # "absent" THEN d
              ELSE IF net = "corrupt" THEN [d EXCEPT !.archive = BadMd5]
              ELSE IF net = "error" THEN d
              ELSE [d EXCEPT !.archive = GoodMd5]
    IN  IF d1.archive = "absent"
            THEN [disk |-> d1, err |-> "NetworkError", paths |-> <<>>]
        ELSE IF ARCHIVE_NAME \in DOMAIN md5sums
                /\ d1.archive # md5sums[ARCHIVE_NAME]
            THEN [disk |-> d1, err |-> "ChecksumMismatch", paths |-> <<>>]
        ELSE IF net = "extract_error"
            THEN [disk |-> d1, err |-> "ExtractError", paths |-> <<>>]
        ELSE [disk |-> [d1 EXCEPT !.members = @ \cup Range(ord),
                                  !.archive = IF rm_archive THEN "absent" ELSE @],
              err |-> "none",
              paths |-> [i \in 1..Len(ord) |-> Path(dir, ord[i])]]

\* util.remove_files(paths)
remove_files(d, paths) ==
    [d EXCEPT !.members = @ \ {shorten_fname(f) : f \in Range(paths)}]

\* all of the given member paths are files of the storage directory
OnDisk(d, paths) == \A f \in paths : shorten_fname(f) \in d.members

Logged(p, op, ondisk) == [hist EXCEPT ![p].log = Append(@, <<op, ondisk>>)]

\* an exception leaves the call of process p: nothing in either function
\* catches what the fetcher or the handler at line 116 raises
Raise(p, e) ==
    /\ pc' = [pc EXCEPT ![p] = "raised"]
    /\ loc' = [loc EXCEPT ![p].err = e]
    /\ last' = [kind |-> IF pc[p] = "load" THEN "raised_load" ELSE "raised_fetch",
                data |-> NoData]

\* the fetcher of process p goes on after statement s; after the last
\* statement the call returns data (lines 76, 117)
Advance(p, s) ==
    /\ pc' = [pc EXCEPT ![p] = Enter(After(s), loc'[p].ts_paths)]
    /\ last' = IF pc'[p] = "done"
               THEN [kind |-> "fetched", data |-> loc'[p].data]
               ELSE last

(* ------------------------ fetch_asas_training -------------------------- *)

\* lines 108-110: the call starts, data_dir defaults, cache_path is fixed
StartCall(p, data_dir) ==
    /\ pc[p] \in {"idle", "done", "raised"}
    /\ ncalls < MaxCalls
    /\ ncalls' = ncalls + 1
    /\ pc' = [pc EXCEPT ![p] = "load"]
    /\ loc' = [loc EXCEPT ![p] =
                 [InitLoc EXCEPT !.data_dir =
                     IF data_dir = "None" THEN DefaultDir ELSE data_dir]]
    /\ hist' = [hist EXCEPT ![p] =
                 [InitHist EXCEPT !.diskAtCall = disk, !.prev = last.kind,
                                  !.prevData = last.data]]
    /\ UNCHANGED <<remote, disk, last>>

\* a call made while no other call is running
Call(p) ==
    /\ \A q \in Procs : pc[q] \notin Active
    /\ \E data_dir \in {"None", DefaultDir} : StartCall(p, data_dir)

\* a call that waits for a lock on the storage directory
CallLocked(p) ==
    /\ \A q \in Procs : pc[q] \notin Active
    /\ \E data_dir \in {"None", DefaultDir} : StartCall(p, data_dir)

\* a call made whatever the other processes are doing: fetch_asas_training
\* takes no lock
CallConc(p) ==
    \E data_dir \in {"None", DefaultDir} : StartCall(p, data_dir)

\* lines 112-117: load the cache; the caught exceptions fall back to the
\* fetcher, any other exception leaves the call
LoadCache(p) ==
    /\ pc[p] = "load"
    /\ LET r == joblib_load(ReadFile(disk, FetchCachePath(loc[p].data_dir)))
       IN  IF r.class = "ok"
           THEN /\ pc' = [pc EXCEPT ![p] = "done"]
                /\ loc' = [loc EXCEPT ![p].data = r.data]
                /\ last' = [kind |-> "hit", data |-> r.data]
                /\ hist' = [hist EXCEPT ![p].log = Append(@, <<"joblib.load", TRUE>>),
                                        ![p].loadClass = r.class]
           ELSE IF r.class \in CaughtErrors
           THEN /\ pc' = [pc EXCEPT ![p] = Enter(FetcherSteps[1], <<>>)]
                /\ hist' = [hist EXCEPT ![p].log =
                               @ \o <<<<"joblib.load", TRUE>>,
                                      <<"download_asas_training", TRUE>>>>,
                                        ![p].loadClass = r.class]
                /\ UNCHANGED <<loc, last>>
           ELSE /\ Raise(p, r.class)
                /\ hist' = [hist EXCEPT ![p].log = Append(@, <<"joblib.load", TRUE>>),
                                        ![p].loadClass = r.class]
    /\ UNCHANGED <<remote, disk, ncalls>>

(* ----------------------- download_asas_training ------------------------ *)

\* line 51: header_path = dsutil.download_file(...)
DlHeader(p) ==
    /\ pc[p] = "dl_header"
    /\ \E net \in {"ok", "error"} :
        LET r == download_file(disk, net)
        IN  /\ disk' = r.disk
            /\ hist' = Logged(p, "download_file", TRUE)
            /\ IF r.err = "none"
               THEN /\ loc' = [loc EXCEPT ![p].header_path =
                                  Path(loc[p].data_dir, HEADER_FILE)]
                    /\ Advance(p, "dl_header")
               ELSE Raise(p, r.err)
    /\ UNCHANGED <<remote, ncalls>>

\* lines 52-55: ts_paths = dsutil.download_and_extract_archives(...),
\* archive_path
DlArchive(p) ==
    /\ pc[p] = "dl_archive"
    /\ \E net \in {"ok", "error", "corrupt", "extract_error"} :
        LET r == download_and_extract_archives(disk, loc[p].data_dir, MD5SUMS,
                                               remove_archive, remote, net)
        IN  /\ disk' = r.disk
            /\ hist' = Logged(p, "download_and_extract_archives", TRUE)
            /\ IF r.err = "none"
               THEN /\ loc' = [loc EXCEPT ![p].ts_paths = r.paths,
                                          ![p].archive_path =
                                              Path(loc[p].data_dir, ARCHIVE_NAME)]
                    /\ Advance(p, "dl_archive")
               ELSE Raise(p, r.err)
    /\ UNCHANGED <<remote, ncalls>>

\* the triple inserted at the front of the lists
LoopBodyFront(l, fname) ==
    LET tme == parse_ts_data(fname)
    IN  [l EXCEPT !.times = <<tme[1]>> \o @,
                  !.measurements = <<tme[2]>> \o @,
                  !.errors = <<tme[3]>> \o @]

\* lines 61-64: the body of the loop, for the member at path fname
LoopBody(l, fname) ==
    LET tme == parse_ts_data(fname)
    IN  [l EXCEPT !.times = Append(@, tme[1]),
                  !.measurements = Append(@, tme[2]),
                  !.errors = Append(@, tme[3])]

\* lines 60-64: one iteration of the loop over ts_paths
ParseTs(p) ==
    /\ pc[p] = "parse_ts"
    /\ LET fname == loc[p].ts_paths[Len(loc[p].times) + 1]
           ondisk == OnDisk(disk, {fname})
       IN  /\ hist' = Logged(p, "parse_ts_data", ondisk)
           /\ \E content \in {"ok", "bad"} :
               IF ~ondisk THEN Raise(p, "IOError")
               ELSE IF content = "bad" THEN Raise(p, "ParseError")
               ELSE /\ loc' = [loc EXCEPT ![p] = LoopBody(@, fname)]
                    /\ IF Len(loc'[p].times) >= Len(loc[p].ts_paths)
                       THEN Advance(p, "parse_ts")
                       ELSE UNCHANGED <<pc, last>>
    /\ UNCHANGED <<remote, disk, ncalls>>

\* lines 65-66: header = pd.read_csv(header_path), extract_dir
ReadCsv(p) ==
    /\ pc[p] = "read_csv"
    /\ hist' = Logged(p, "read_csv", TRUE)
    /\ IF ReadFile(disk, loc[p].header_path).exists
       THEN /\ UNCHANGED loc
            /\ Advance(p, "read_csv")
       ELSE Raise(p, "IOError")
    /\ UNCHANGED <<remote, disk, ncalls>>

\* line 67: util.remove_files(ts_paths)
RemoveFiles(p) ==
    /\ pc[p] = "remove"
    /\ hist' = Logged(p, "remove_files", OnDisk(disk, Range(loc[p].ts_paths)))
    /\ \E os \in {"ok", "error"} :
        IF os = "ok"
        THEN /\ disk' = remove_files(disk, loc[p].ts_paths)
             /\ UNCHANGED loc
             /\ Advance(p, "remove")
        ELSE /\ Raise(p, "OSError")
             /\ UNCHANGED disk
    /\ UNCHANGED <<remote, ncalls>>

\* line 69: classes, metadata = featurize_tools.parse_headerfile(header_path,
\* ts_paths)
ParseHeader(p) ==
    /\ pc[p] = "parse_header"
    /\ hist' = Logged(p, "parse_headerfile", OnDisk(disk, Range(loc[p].ts_paths)))
    /\ \E content \in {"ok", "bad"} :
        IF ~ReadFile(disk, loc[p].header_path).exists THEN Raise(p, "IOError")
        ELSE IF content = "bad" THEN Raise(p, "ParseError")
        ELSE LET cm == parse_headerfile(loc[p].header_path, loc[p].ts_paths)
             IN  /\ loc' = [loc EXCEPT ![p].classes = cm[1],
                                       ![p].metadata = cm[2]]
                 /\ Advance(p, "parse_header")
    /\ UNCHANGED <<remote, disk, ncalls>>

\* lines 71-75: build the dict and joblib.dump it to cache_path
DumpCache(p) ==
    /\ pc[p] = "dump"
    /\ LET data == Dataset(loc[p].times, loc[p].measurements, loc[p].errors,
                           loc[p].classes, loc[p].metadata,
                           loc[p].archive_path, loc[p].header_path)
       IN  /\ disk' = WriteFile(disk, DownloadCachePath(loc[p].data_dir),
                                joblib_dump(data))
           /\ loc' = [loc EXCEPT ![p].data = data]
    /\ hist' = Logged(p, "joblib.dump", TRUE)
    /\ Advance(p, "dump")
    /\ UNCHANGED <<remote, ncalls>>

Step(p) ==
    \/ LoadCache(p)
    \/ DlHeader(p)
    \/ DlArchive(p)
    \/ ParseTs(p)
    \/ ReadCsv(p)
    \/ RemoveFiles(p)
    \/ ParseHeader(p)
    \/ DumpCache(p)

\* calls follow one another
Next == \E p \in Procs : Call(p) \/ Step(p)

Spec == Init /\ [][Next]_vars

\* calls of different processes overlap
NextConc == \E p \in Procs : CallConc(p) \/ Step(p)

SpecConc == Init /\ [][NextConc]_vars

(* ------------------------------ properties ----------------------------- *)

Log(p) == hist[p].log
Has(p, op) == \E i \in 1..Len(Log(p)) : Log(p)[i][1] = op
Count(p, op) == Cardinality({i \in 1..Len(Log(p)) : Log(p)[i][1] = op})
ValidCache(f) == f.exists /\ Len(f.bytes) = BlobLen /\ f.bytes[1] = ZPrefix
Fetched(p) == pc[p] = "done" /\ Has(p, "joblib.dump")

\* C1: a call that finds a valid serialized Dataset in the cache file returns
\* the Dataset serialized there, calls nothing but joblib.load (no fetcher,
\* no download) and leaves every file of the storage directory as it was.
C1_CacheHit ==
    [][\A p \in Procs :
        (pc[p] = "load" /\ pc'[p] # "load" /\ ValidCache(disk.cache))
        => /\ pc'[p] = "done"
           /\ disk.cache.bytes = joblib_dump(loc'[p].data)
           /\ hist'[p].log = <<<<"joblib.load", TRUE>>>>
           /\ disk' = disk]_vars

C1_Witness ==
    \E p \in Procs :
        /\ pc[p] = "done"
        /\ hist[p].loadClass = "ok"
        /\ hist[p].prev = "none"
        /\ loc[p].data = BuiltFrom(DefaultDir, <<1>>)

\* C2: after a call that fetched successfully, the cache file exists and the
\* next call loads it, runs no fetcher and returns the Dataset the first
\* call returned.
C2_RoundTrip ==
    \A p \in Procs :
        (hist[p].prev = "fetched" /\ pc[p] # "idle")
        => /\ hist[p].diskAtCall.cache.exists
           /\ pc[p] \in {"load", "done"}
           /\ pc[p] = "done"
                => /\ hist[p].loadClass = "ok"
                   /\ ~Has(p, "download_asas_training")
                   /\ loc[p].data = hist[p].prevData

C2_Witness ==
    \E p, q \in Procs :
        /\ p # q
        /\ pc[q] = "done" /\ hist[q].loadClass = "IOError"
        /\ pc[p] = "done" /\ hist[p].prev = "fetched"
        /\ Len(loc[p].data.times) = MaxMembers

\* C3: a call that finds a cache file whose content cannot be deserialized,
\* whatever the way it fails, runs the fetcher.
C3_CorruptCacheRecovered ==
    \A p \in Procs :
        (pc[p] \in {"done", "raised"} /\ hist[p].diskAtCall.cache.exists
            /\ hist[p].loadClass # "ok")
        => Has(p, "download_asas_training")

\* C4: after a successful run of the fetcher none of the extracted member
\* files is in the storage directory, and the archive and the header are.
C4_Cleanup ==
    \A p \in Procs :
        Fetched(p)
        => /\ \A f \in Range(loc[p].ts_paths) : ~OnDisk(disk, {f})
           /\ ReadFile(disk, loc[p].archive_path).exists
           /\ ReadFile(disk, loc[p].header_path).exists

C4_Witness ==
    \E p \in Procs : Fetched(p) /\ Len(loc[p].ts_paths) = MaxMembers

\* C5: in the Dataset a fetcher run returns, times, measurements and errors
\* have one entry per archive member, entry i is the triple parsed from the
\* i-th member path in archive order, and classes and metadata are keyed by
\* the identifiers of the same member paths.
C5_Alignment ==
    \A p \in Procs :
        Fetched(p)
        => LET d == loc[p].data
               paths == loc[p].ts_paths
               n == Len(remote)
               ids == {shorten_fname(f) : f \in Range(paths)}
           IN  /\ Len(paths) = n /\ Count(p, "parse_ts_data") = n
               /\ Len(d.times) = n /\ Len(d.measurements) = n
               /\ Len(d.errors) = n
               /\ \A i \in 1..n :
                    /\ paths[i] = Path(loc[p].data_dir, remote[i])
                    /\ <<d.times[i], d.measurements[i], d.errors[i]>>
                         = parse_ts_data(paths[i])
               /\ DOMAIN d.classes = ids
               /\ DOMAIN d.metadata = ids

C5_Witness ==
    \E p \in Procs :
        /\ Fetched(p)
        /\ Len(loc[p].data.times) = MaxMembers
        /\ remote[1] > remote[MaxMembers]

\* C6: a fetcher run whose archive step reports a checksum mismatch fails
\* with that error: no member is parsed, no Dataset is built or cached, the
\* step is not retried; no run goes past the archive step with an archive
\* whose digest is not the expected one.
C6_ChecksumFatal ==
    \A p \in Procs :
        /\ loc[p].err = "ChecksumMismatch"
            => /\ pc[p] = "raised"
               /\ ~Has(p, "parse_ts_data")
               /\ ~Has(p, "joblib.dump")
               /\ loc[p].data = NoData
               /\ Count(p, "download_and_extract_archives") = 1
        /\ (Has(p, "download_and_extract_archives") /\ pc[p] # "raised")
            => disk.archive = GoodMd5

C6_Witness ==
    \E p \in Procs :
        /\ pc[p] = "raised"
        /\ loc[p].err = "ChecksumMismatch"
        /\ hist[p].diskAtCall.archive = "absent"

\* C7 as stated: the header parser runs before the member files are
\* deleted, and every member path handed to a parser is a file on disk at
\* the time of the call.
C7_HeaderParsedBeforeDelete ==
    \A p \in Procs :
        \A i \in 1..Len(Log(p)) :
            /\ Log(p)[i][1] = "remove_files"
                => \E j \in 1..(i - 1) : Log(p)[j][1] = "parse_headerfile"
            /\ Log(p)[i][1] \in {"parse_ts_data", "parse_headerfile"}
                => Log(p)[i][2]

\* C7 amended: remove_files is called on the member paths after every
\* member has been parsed by parse_ts_data and before the header parser
\* runs; a member path handed to parse_ts_data is a file on disk at the time
\* of the call.
C7_DeleteBeforeHeaderParse ==
    \A p \in Procs :
        \A i \in 1..Len(Log(p)) :
            /\ Log(p)[i][1] = "parse_headerfile"
                => \E j \in 1..(i - 1) : Log(p)[j][1] = "remove_files"
            /\ Log(p)[i][1] = "remove_files"
                => /\ Cardinality({j \in 1..(i - 1) :
                                      Log(p)[j][1] = "parse_ts_data"})
                        = Len(loc[p].ts_paths)
                   /\ Count(p, "parse_ts_data") = Len(loc[p].ts_paths)
            /\ Log(p)[i][1] = "parse_ts_data" => Log(p)[i][2]

C7_Witness ==
    \E p \in Procs :
        /\ Has(p, "parse_headerfile")
        /\ Len(loc[p].ts_paths) = MaxMembers

\* C8: the fetcher is invoked exactly when the cache load fails with
\* ValueError or IOError, and at most once in a call; a load that fails with
\* another exception ends the call with that exception, with no fetcher run
\* and the storage directory as it was.
C8_FallbackOnlyOnCaught ==
    \A p \in Procs :
        pc[p] \notin {"idle", "load"}
        => /\ Has(p, "download_asas_training")
                <=> hist[p].loadClass \in {"ValueError", "IOError"}
           /\ Count(p, "download_asas_training") <= 1
           /\ hist[p].loadClass \notin {"ok", "ValueError", "IOError"}
                => /\ pc[p] = "raised"
                   /\ loc[p].err = hist[p].loadClass
                   /\ Log(p) = <<<<"joblib.load", TRUE>>>>
                   /\ disk = hist[p].diskAtCall

C8_Witness ==
    \E p \in Procs :
        /\ pc[p] = "raised"
        /\ hist[p].loadClass = "EOFError"
        /\ hist[p].diskAtCall.cache.exists

C10_NothingSerializes ==
    \A p, q \in Procs :
        (p # q /\ pc[p] \in Range(FetcherSteps))
        => /\ (pc[q] \notin Active /\ ncalls < MaxCalls) => ENABLED CallConc(q)
           /\ pc[q] \in Active => ENABLED Step(q)

\* both processes missed the cache and run the fetcher; q has deleted the
\* member file p extracted and is about to parse
C10_Witness ==
    \E p, q \in Procs :
        /\ p # q
        /\ Has(p, "download_asas_training")
        /\ Has(q, "download_asas_training")
        /\ pc[p] = "parse_ts"
        /\ pc[q] \in {"parse_header", "dump"}
        /\ ~OnDisk(disk, {loc[p].ts_paths[Len(loc[p].times) + 1]})

====
